---- MODULE Spec2Model ----
(***************************************************************************)
(* A model of gcx-tools/gcx_map.py: the closed-form glycocalyx intensity   *)
(* profile (smeared_gauss, smeared_gauss_rotated, gcx_segment), the angle  *)
(* helper get_angle, and the plotting helper plot_line_segments together   *)
(* with the part of the plotting library's state its calls read and write. *)
(*                                                                         *)
(* Numbers are exact.  A rational is a record [n, d] in lowest terms.      *)
(* The irrational quantities of the source are kept symbolically:          *)
(*   - an erf argument r/sqrt(2) is kept as its rational coefficient r;    *)
(*   - a value  c * (erf(hi/sqrt 2) - erf(lo/sqrt 2)) * exp(ex)  is the    *)
(*     record [c, erf, ex] (erf = <<>> when there is no erf factor);       *)
(*   - an angle  q * pi/4 + atan(t)  is the record [q, t].                 *)
(***************************************************************************)
EXTENDS Integers, Sequences, FiniteSets, TLC

(***************************************************************************)
(* Bounds of the model.                                                    *)
(***************************************************************************)
MaxCoord == 1    \* sample points of the profile: the grid -MaxCoord..MaxCoord
MaxCentre == 1   \* profile centres (xo, yo) and the points gcx_segment is
                 \* evaluated at: the grid 0..MaxCentre
MaxS == 2        \* s in 1..MaxS
MaxD == 2        \* d in 0..MaxD
MaxA == 2        \* A in 0..MaxA
MaxPt == 2       \* endpoints of get_angle: the grid -MaxPt..MaxPt
MaxN == 3        \* polyline length n in 0..MaxN
MaxVal == 3      \* polyline values in 0..MaxVal

(***************************************************************************)
(* Exact rational arithmetic (Python / numpy float arithmetic, idealised). *)
(***************************************************************************)
Abs(i) == IF i < 0 THEN -i ELSE i

RECURSIVE Gcd(_, _)
Gcd(a, b) == IF b = 0 THEN a ELSE Gcd(b, a % b)

\* The rational n/d in lowest terms with a positive denominator (d # 0).
Rat(n, d) ==
    LET g == Gcd(Abs(n), Abs(d))
        sg == IF d < 0 THEN -1 ELSE 1
    IN [n |-> sg * (n \div g), d |-> sg * (d \div g)]

R(i) == [n |-> i, d |-> 1]
RAdd(a, b) == Rat(a.n * b.d + b.n * a.d, a.d * b.d)
RNeg(a) == [n |-> -a.n, d |-> a.d]
RSub(a, b) == RAdd(a, RNeg(b))
RMul(a, b) == Rat(a.n * b.n, a.d * b.d)
RDiv(a, b) == Rat(a.n * b.d, a.d * b.n)
RLt(a, b) == a.n * b.d < b.n * a.d
RLe(a, b) == a.n * b.d <= b.n * a.d
RAbs(a) == [n |-> Abs(a.n), d |-> a.d]
RZero == R(0)

(***************************************************************************)
(* Symbolic values  c * (erf(hi/sqrt 2) - erf(lo/sqrt 2)) * exp(ex).       *)
(***************************************************************************)
Const(r) == [c |-> r, erf |-> << >>, ex |-> RZero]
ZeroVal == Const(RZero)

\* scipy.special.erf applied twice and subtracted: erf(a/sqrt 2) - erf(b/sqrt 2).
\* erf is strictly increasing, so the difference is 0 exactly when a = b; it
\* is odd, so erf(a) - erf(b) = erf(-b) - erf(-a): the pair is stored with
\* hi > lo and hi + lo >= 0.
ErfDiff(a, b) ==
    IF a = b THEN ZeroVal
    ELSE LET sgn == IF RLt(b, a) THEN 1 ELSE -1
             hi0 == IF RLt(b, a) THEN a ELSE b
             lo0 == IF RLt(b, a) THEN b ELSE a
             flip == RLt(RAdd(hi0, lo0), RZero)
             hi == IF flip THEN RNeg(lo0) ELSE hi0
             lo == IF flip THEN RNeg(hi0) ELSE lo0
         IN [c |-> R(sgn), erf |-> <<hi, lo>>, ex |-> RZero]

\* numpy.exp of a rational.
Exp(r) == [c |-> R(1), erf |-> << >>, ex |-> r]

\* The product of two values, at most one of which has an erf factor.
Times(a, b) ==
    LET c == RMul(a.c, b.c)
    IN IF c = RZero THEN ZeroVal
       ELSE [c |-> c,
             erf |-> IF a.erf # << >> THEN a.erf ELSE b.erf,
             ex |-> RAdd(a.ex, b.ex)]

(***************************************************************************)
(* Angles  q * pi/4 + atan(t).                                             *)
(***************************************************************************)
Angle(q, t) == [q |-> q, t |-> t]
ZeroAngle == Angle(0, RZero)
HalfPi == Angle(2, RZero)                    \* np.pi/2

\* numpy.arctan: exact at 0, 1 and -1, symbolic elsewhere.
arctan(r) ==
    IF r = R(0) THEN Angle(0, RZero)
    ELSE IF r = R(1) THEN Angle(1, RZero)
    ELSE IF r = R(-1) THEN Angle(-1, RZero)
    ELSE Angle(0, r)

\* a - b for a multiple a of pi/4 (atan is odd).
AngleSub(a, b) == Angle(a.q - b.q, RNeg(b.t))

\* The integer square root of a perfect square.
ISqrt(k) == CHOOSE r \in 0..k : r * r = k

\* cos and sin of atan(t), t = n/d with n*n + d*d a perfect square.
CosAtan(t) == Rat(t.d, ISqrt(t.n * t.n + t.d * t.d))
SinAtan(t) == Rat(t.n, ISqrt(t.n * t.n + t.d * t.d))

\* numpy.cos and numpy.sin on the angles with rational cosine and sine: the
\* multiples of pi/2 plus atan(t).
Cos(theta) ==
    LET k == theta.q % 8
    IN CASE k = 0 -> CosAtan(theta.t)
         [] k = 2 -> RNeg(SinAtan(theta.t))
         [] k = 4 -> RNeg(CosAtan(theta.t))
         [] k = 6 -> SinAtan(theta.t)

Sin(theta) ==
    LET k == theta.q % 8
    IN CASE k = 0 -> SinAtan(theta.t)
         [] k = 2 -> CosAtan(theta.t)
         [] k = 4 -> RNeg(SinAtan(theta.t))
         [] k = 6 -> RNeg(CosAtan(theta.t))

(***************************************************************************)
(* gcx_map.py, lines 6-75: the numeric functions.                          *)
(***************************************************************************)
\* A plausible slip: the two error functions added instead of subtracted.
smeared_gauss_sum(x, y, s, d) ==
    LET x1 == RDiv(RSub(x, RDiv(d, R(2))), s)
        x2 == RDiv(RAdd(x, RDiv(d, R(2))), s)
    IN Times(Times(Const(Rat(1, 2)), ErfDiff(x2, RNeg(x1))),
             Exp(RNeg(RDiv(RDiv(RMul(y, y), R(2)), RMul(s, s)))))

\* smeared_gauss: x1, x2 are the coefficients of 1/sqrt(2) of the source's
\* x1 = (x - d/2)/sqrt(2)/s and x2 = (x + d/2)/sqrt(2)/s.
smeared_gauss(x, y, s, d) ==
    LET x1 == RDiv(RSub(x, RDiv(d, R(2))), s)
        x2 == RDiv(RAdd(x, RDiv(d, R(2))), s)
    IN Times(Times(Const(Rat(1, 2)), ErfDiff(x2, x1)),
             Exp(RNeg(RDiv(RDiv(RMul(y, y), R(2)), RMul(s, s)))))

\* A plausible slip: the rotation written in the opposite sense.
rotate_opposite(x, y, theta) ==
    <<RAdd(RMul(Cos(theta), x), RMul(Sin(theta), y)),
      RSub(RMul(Cos(theta), y), RMul(Sin(theta), x))>>

\* A plausible slip: a wrong sign in x_rot alone.
rotate_sign(x, y, theta) ==
    <<RAdd(RMul(Cos(theta), x), RMul(Sin(theta), y)),
      RAdd(RMul(Sin(theta), x), RMul(Cos(theta), y))>>

\* Line 31: x_rot, y_rot.
rotate(x, y, theta) ==
    <<RSub(RMul(Cos(theta), x), RMul(Sin(theta), y)),
      RAdd(RMul(Sin(theta), x), RMul(Cos(theta), y))>>

smeared_gauss_rotated(x, y, s, d, theta) ==
    LET xy_rot == rotate(x, y, theta)
    IN smeared_gauss(xy_rot[1], xy_rot[2], s, d)

\* A plausible slip: the centre is not subtracted.
gcx_segment_untranslated(x, y, A, s, d, xo, yo, theta) ==
    Times(Const(A), smeared_gauss_rotated(x, y, s, d, theta))

gcx_segment(x, y, A, s, d, xo, yo, theta) ==
    Times(Const(A), smeared_gauss_rotated(RSub(x, xo), RSub(y, yo), s, d, theta))

\* Python's true division of two integers (the divisor is not 0).
TrueDiv(a, b) == Rat(a, b)

\* A plausible slip: the quotient computed before the test of x1 != x2, so
\* that a vertical pair raises ZeroDivisionError.
get_angle_eager(point1, point2) ==
    LET x1 == point1[1]
        y1 == point1[2]
        x2 == point2[1]
        y2 == point2[2]
    IN IF x2 - x1 = 0
       THEN [value |-> ZeroAngle, divisions |-> 1, raised |-> "ZeroDivisionError"]
       ELSE [value |-> AngleSub(HalfPi, arctan(TrueDiv(y2 - y1, x2 - x1))),
             divisions |-> 1, raised |-> "none"]

\* A plausible slip: atan taken of the negated slope.
get_angle_plus(point1, point2) ==
    LET x1 == point1[1]
        y1 == point1[2]
        x2 == point2[1]
        y2 == point2[2]
    IN IF x1 # x2
       THEN [value |-> AngleSub(HalfPi, arctan(RNeg(TrueDiv(y2 - y1, x2 - x1)))),
             divisions |-> 1, raised |-> "none"]
       ELSE [value |-> ZeroAngle, divisions |-> 0, raised |-> "none"]

\* A plausible slip: the vertical pair given the limit of the general formula.
get_angle_limit(point1, point2) ==
    LET x1 == point1[1]
        y1 == point1[2]
        x2 == point2[1]
        y2 == point2[2]
    IN IF x1 # x2
       THEN [value |-> AngleSub(HalfPi, arctan(TrueDiv(y2 - y1, x2 - x1))),
             divisions |-> 1, raised |-> "none"]
       ELSE [value |-> HalfPi, divisions |-> 0, raised |-> "none"]

\* get_angle: the conditional expression tests x1 != x2 first and evaluates
\* only the chosen branch; `divisions` counts the evaluations of
\* (y2 - y1)/(x2 - x1), `raised` is the exception the call ends with.
get_angle(point1, point2) ==
    LET x1 == point1[1]
        y1 == point1[2]
        x2 == point2[1]
        y2 == point2[2]
    IN IF x1 # x2
       THEN [value |-> AngleSub(HalfPi, arctan(TrueDiv(y2 - y1, x2 - x1))),
             divisions |-> 1, raised |-> "none"]
       ELSE [value |-> ZeroAngle, divisions |-> 0, raised |-> "none"]

(***************************************************************************)
(* State.                                                                  *)
(*   called, margs, mloc, mret : the numeric function called last, its     *)
(*       arguments, its local variables and its return value.              *)
(*   figs, curFig : pyplot's registry of managed figures and its current   *)
(*       figure (0: none).  nfig : the figure objects created so far.      *)
(*   axs : the axes objects, by identity 1..Len(axs).                      *)
(*   ppc, pargs, ploc : per call site of plot_line_segments, the position  *)
(*       in the function body, the arguments and the local variables.      *)
(***************************************************************************)
VARIABLES called, margs, mloc, mret, figs, curFig, nfig, axs, ppc, pargs, ploc

mathVars == <<called, margs, mloc, mret>>
plotVars == <<figs, curFig, nfig, axs, ppc, pargs, ploc>>
vars == <<called, margs, mloc, mret, figs, curFig, nfig, axs, ppc, pargs, ploc>>

Sites == {1, 2}

(***************************************************************************)
(* Inputs of the numeric functions.                                        *)
(***************************************************************************)
Grid == {<<R(i), R(j)>> : i, j \in -MaxCoord..MaxCoord}
Centres == {<<R(i), R(j)>> : i, j \in 0..MaxCentre}
SSet == {R(i) : i \in 1..MaxS}
DSet == {R(i) : i \in 0..MaxD}
ASet == {R(i) : i \in 0..MaxA}
PtGrid == (-MaxPt..MaxPt) \X (-MaxPt..MaxPt)

\* The angles with rational cosine and sine used as theta: k * pi/2 and
\* k * pi/2 +- atan(3/4).
ThetaSet == {Angle(q, t) : q \in {0, 2, 4, 6}, t \in {RZero, Rat(3, 4), Rat(-3, 4)}}

NegAngle(theta) == Angle((8 - theta.q) % 8, RNeg(theta.t))

\* The point p turned counter-clockwise by theta about the origin.
RotatePoint(p, theta) ==
    <<RSub(RMul(Cos(theta), p[1]), RMul(Sin(theta), p[2])),
      RAdd(RMul(Sin(theta), p[1]), RMul(Cos(theta), p[2]))>>

\* The grid and its images under the rotations of ThetaSet.
PointSet == Grid \cup {RotatePoint(p, th) : p \in Grid, th \in ThetaSet}

NoArgs == [x |-> RZero]
NoLocals == [x_rot |-> RZero, y_rot |-> RZero]
NoRet == [value |-> ZeroVal]

(***************************************************************************)
(* One call of a numeric function on inputs drawn from the sets above.     *)
(***************************************************************************)
Call_smeared_gauss ==
    /\ called = "none"
    /\ \E p \in PointSet, s \in SSet, d \in DSet :
         /\ margs' = [x |-> p[1], y |-> p[2], s |-> s, d |-> d]
         /\ mret' = [value |-> smeared_gauss(p[1], p[2], s, d)]
    /\ called' = "smeared_gauss"
    /\ mloc' = NoLocals
    /\ UNCHANGED plotVars

Call_smeared_gauss_rotated ==
    /\ called = "none"
    /\ \E p \in PointSet, s \in SSet, d \in DSet, theta \in ThetaSet :
         /\ margs' = [x |-> p[1], y |-> p[2], s |-> s, d |-> d, theta |-> theta]
         /\ mloc' = [x_rot |-> rotate(p[1], p[2], theta)[1],
                     y_rot |-> rotate(p[1], p[2], theta)[2]]
         /\ mret' = [value |-> smeared_gauss_rotated(p[1], p[2], s, d, theta)]
    /\ called' = "smeared_gauss_rotated"
    /\ UNCHANGED plotVars

Call_gcx_segment ==
    /\ called = "none"
    /\ \E p \in Centres, o \in Centres, A \in ASet,
          s \in SSet, d \in DSet, theta \in ThetaSet :
         /\ margs' = [x |-> p[1], y |-> p[2], A |-> A, s |-> s, d |-> d,
                      xo |-> o[1], yo |-> o[2], theta |-> theta]
         /\ mret' = [value |-> gcx_segment(p[1], p[2], A, s, d, o[1], o[2], theta)]
    /\ called' = "gcx_segment"
    /\ mloc' = NoLocals
    /\ UNCHANGED plotVars

Call_get_angle ==
    /\ called = "none"
    /\ \E point1 \in PtGrid, point2 \in PtGrid :
         /\ margs' = [point1 |-> point1, point2 |-> point2]
         /\ mret' = get_angle(point1, point2)
    /\ called' = "get_angle"
    /\ mloc' = NoLocals
    /\ UNCHANGED plotVars

(***************************************************************************)
(* gcx_map.py, lines 78-112: plot_line_segments, and the plotting library  *)
(* objects it works on.                                                    *)
(***************************************************************************)
\* A new, empty axes of figure f.  xlim, ylim = << >>: never set explicitly.
NewAxes(f) ==
    [fig |-> f, kind |-> "plot", parent |-> 0, mappable |-> << >>,
     collections |-> << >>, xlim |-> << >>, ylim |-> << >>,
     xlabel |-> "", ylabel |-> ""]

\* The axes a colour bar is drawn in: made in the figure of the axes `ax` it
\* takes its room from, for the collection number `lc` of `ax`.
ColorbarAxes(f, ax, lc) ==
    [fig |-> f, kind |-> "colorbar", parent |-> ax, mappable |-> <<ax, lc>>,
     collections |-> << >>, xlim |-> << >>, ylim |-> << >>,
     xlabel |-> "", ylabel |-> ""]

\* ndarray.min and ndarray.max of a non-empty array.
ArrayMin(a) == a[CHOOSE i \in 1..Len(a) : \A j \in 1..Len(a) : RLe(a[i], a[j])]
ArrayMax(a) == a[CHOOSE i \in 1..Len(a) : \A j \in 1..Len(a) : RLe(a[j], a[i])]

\* matplotlib.transforms.nonsingular(vmin, vmax, expander = 0.1), which
\* Colorbar applies to the norm of its mappable: an interval of length 0 is
\* widened, any other is kept.
nonsingular(norm) ==
    IF norm.vmin # norm.vmax THEN norm
    ELSE IF norm.vmin = RZero THEN [vmin |-> Rat(-1, 10), vmax |-> Rat(1, 10)]
    ELSE [vmin |-> RSub(norm.vmin, RMul(Rat(1, 10), RAbs(norm.vmin))),
          vmax |-> RAdd(norm.vmax, RMul(Rat(1, 10), RAbs(norm.vmax)))]

\* The kinds of 1D array_like the caller may pass as vals.
ValsTypes == {"ndarray", "list", "tuple"}

\* Line 96: vals_mean = 0.5*(vals[:-1] + vals[1:]).  For an ndarray + adds
\* elementwise and 0.5* scales.  For a list or a tuple + concatenates the two
\* slices, and 0.5 times a sequence raises TypeError, whatever its length.
vals_mean(vals, type) ==
    IF type # "ndarray" THEN [raised |-> "TypeError", value |-> << >>]
    ELSE IF Len(vals) < 2 THEN [raised |-> "none", value |-> << >>]
    ELSE [raised |-> "none",
          value |-> [i \in 1..(Len(vals) - 1) |->
                       RMul(Rat(1, 2), RAdd(R(vals[i]), R(vals[i + 1])))]]

\* Line 97: plt.Normalize(vals_mean.min(), vals_mean.max()), vals_mean not empty.
vals_norm(vm) == [vmin |-> ArrayMin(vm), vmax |-> ArrayMax(vm)]

\* Lines 98-99: segment i joins point i to point i + 1.
segments(x, y) ==
    IF Len(x) < 2 THEN << >>
    ELSE [i \in 1..(Len(x) - 1) |-> <<<<x[i], y[i]>>, <<x[i + 1], y[i + 1]>>>>]

IdleArgs ==
    [x |-> << >>, y |-> << >>, vals |-> << >>, vals_type |-> "ndarray",
     colormap |-> "", linewidth |-> 0,
     ax |-> 0, xlim |-> << >>, ylim |-> << >>, xlabel |-> "None",
     ylabel |-> "None", cbar_label |-> "None"]

NoNorm == [vmin |-> RZero, vmax |-> RZero]

\* The local variables before the first statement: ax, lc and cbar are object
\* identities (0: not bound yet).
IdleLocals ==
    [ax |-> 0, vals_mean |-> << >>, vals_norm |-> NoNorm, segments |-> << >>,
     lc |-> 0, cbar |-> 0, raised |-> "none"]

\* A call starts: the arguments are bound.  ax is None (0) or an existing
\* axes that is not a colour bar.
Begin(s, a) ==
    /\ ppc[s] = "idle"
    /\ a.ax = 0 \/ (a.ax \in DOMAIN axs /\ axs[a.ax].kind = "plot")
    /\ pargs' = [pargs EXCEPT ![s] = a]
    /\ ploc' = [ploc EXCEPT ![s] = IdleLocals]
    /\ ppc' = [ppc EXCEPT ![s] = "L93"]
    /\ UNCHANGED <<figs, curFig, nfig, axs>>
    /\ UNCHANGED mathVars

\* Lines 93-94: if ax is None: fig, ax = plt.subplots().  plt.subplots makes a
\* new figure, registers it with pyplot, makes it the current figure and adds
\* one axes to it.
Subplots(s) ==
    /\ ppc[s] = "L93"
    /\ IF pargs[s].ax = 0
       THEN /\ nfig' = nfig + 1
            /\ figs' = figs \cup {nfig + 1}
            /\ curFig' = nfig + 1
            /\ axs' = Append(axs, NewAxes(nfig + 1))
            /\ ploc' = [ploc EXCEPT ![s].ax = Len(axs) + 1]
       ELSE /\ ploc' = [ploc EXCEPT ![s].ax = pargs[s].ax]
            /\ UNCHANGED <<figs, curFig, nfig, axs>>
    /\ ppc' = [ppc EXCEPT ![s] = "L96"]
    /\ UNCHANGED pargs
    /\ UNCHANGED mathVars

\* A plausible slip: the norm built without the limits of the data, so that
\* an empty vals_mean passes.
Means_unchecked(s) ==
    /\ ppc[s] = "L96"
    /\ LET m == vals_mean(pargs[s].vals, pargs[s].vals_type)
           vm == m.value
       IN IF m.raised # "none"
          THEN /\ ploc' = [ploc EXCEPT ![s].raised = m.raised]
               /\ ppc' = [ppc EXCEPT ![s] = "error"]
          ELSE /\ ploc' = [ploc EXCEPT ![s].vals_mean = vm,
                                       ![s].vals_norm = IF Len(vm) = 0 THEN NoNorm
                                                        ELSE vals_norm(vm)]
               /\ ppc' = [ppc EXCEPT ![s] = "L98"]
    /\ UNCHANGED <<figs, curFig, nfig, axs, pargs>>
    /\ UNCHANGED mathVars

\* Lines 96-97.  An exception of line 96 ends the call; so does the
\* ValueError that vals_mean.min() of an empty array raises at line 97.
Means(s) ==
    /\ ppc[s] = "L96"
    /\ LET m == vals_mean(pargs[s].vals, pargs[s].vals_type)
           vm == m.value
       IN IF m.raised # "none"
          THEN /\ ploc' = [ploc EXCEPT ![s].raised = m.raised]
               /\ ppc' = [ppc EXCEPT ![s] = "error"]
          ELSE IF Len(vm) = 0
          THEN /\ ploc' = [ploc EXCEPT ![s].vals_mean = vm,
                                       ![s].raised = "ValueError"]
               /\ ppc' = [ppc EXCEPT ![s] = "error"]
          ELSE /\ ploc' = [ploc EXCEPT ![s].vals_mean = vm,
                                       ![s].vals_norm = vals_norm(vm)]
               /\ ppc' = [ppc EXCEPT ![s] = "L98"]
    /\ UNCHANGED <<figs, curFig, nfig, axs, pargs>>
    /\ UNCHANGED mathVars

\* Lines 98-99.
Segments(s) ==
    /\ ppc[s] = "L98"
    /\ ploc' = [ploc EXCEPT ![s].segments = segments(pargs[s].x, pargs[s].y)]
    /\ ppc' = [ppc EXCEPT ![s] = "L101"]
    /\ UNCHANGED <<figs, curFig, nfig, axs, pargs>>
    /\ UNCHANGED mathVars

\* Lines 101-104: the LineCollection is built and added to ax.  Its norm is
\* the object vals_norm.
AddCollection(s) ==
    /\ ppc[s] = "L101"
    /\ LET ax == ploc[s].ax
           lc == [segments |-> ploc[s].segments, cmap |-> pargs[s].colormap,
                  norm |-> ploc[s].vals_norm, array |-> ploc[s].vals_mean,
                  linewidth |-> pargs[s].linewidth]
       IN /\ axs' = [axs EXCEPT ![ax].collections = Append(@, lc)]
          /\ ploc' = [ploc EXCEPT ![s].lc = Len(axs[ax].collections) + 1]
    /\ ppc' = [ppc EXCEPT ![s] = "L105"]
    /\ UNCHANGED <<figs, curFig, nfig, pargs>>
    /\ UNCHANGED mathVars

\* A plausible slip: plt.colorbar(line) without ax=ax, which takes the room
\* for the colour bar from the current axes (the newest axes of the current
\* figure).
Colorbar_gca(s) ==
    /\ ppc[s] = "L105"
    /\ curFig # 0
    /\ LET ax == ploc[s].ax
           lc == ploc[s].lc
           widened == nonsingular(axs[ax].collections[lc].norm)
           cur == CHOOSE a \in DOMAIN axs :
                     /\ axs[a].fig = curFig
                     /\ \A b \in DOMAIN axs : axs[b].fig = curFig => b <= a
       IN /\ axs' = Append([axs EXCEPT ![ax].collections[lc].norm = widened],
                           ColorbarAxes(curFig, cur, lc))
          /\ ploc' = [ploc EXCEPT ![s].vals_norm = widened,
                                  ![s].cbar = Len(axs) + 1]
    /\ ppc' = [ppc EXCEPT ![s] = "L107"]
    /\ UNCHANGED <<figs, curFig, nfig, pargs>>
    /\ UNCHANGED mathVars

\* Line 105: cbar = plt.colorbar(line, ax=ax).  pyplot.colorbar calls
\* gcf().colorbar: gcf() makes (and registers) a figure when there is no
\* current one; the colour bar's axes are made in the figure of ax; the
\* colour bar widens the norm of its mappable when vmin = vmax (the norm is
\* the object vals_norm still names).
Colorbar(s) ==
    /\ ppc[s] = "L105"
    /\ LET ax == ploc[s].ax
           lc == ploc[s].lc
           widened == nonsingular(axs[ax].collections[lc].norm)
       IN /\ axs' = Append([axs EXCEPT ![ax].collections[lc].norm = widened],
                           ColorbarAxes(axs[ax].fig, ax, lc))
          /\ ploc' = [ploc EXCEPT ![s].vals_norm = widened,
                                  ![s].cbar = Len(axs) + 1]
    /\ IF curFig = 0
       THEN /\ nfig' = nfig + 1
            /\ figs' = figs \cup {nfig + 1}
            /\ curFig' = nfig + 1
       ELSE UNCHANGED <<figs, curFig, nfig>>
    /\ ppc' = [ppc EXCEPT ![s] = "L107"]
    /\ UNCHANGED pargs
    /\ UNCHANGED mathVars

\* Lines 107-112: limits and labels.  set_xlim(None) and set_ylim(None) keep
\* the limits; the labels are set to the arguments as given ("None": None).
\* cbar.set_label sets the label of the colour bar's axes.
Decorate(s) ==
    /\ ppc[s] = "L107"
    /\ LET ax == ploc[s].ax
           a == pargs[s]
       IN axs' = [axs EXCEPT
                    ![ax].xlim = IF a.xlim = << >> THEN @ ELSE a.xlim,
                    ![ax].ylim = IF a.ylim = << >> THEN @ ELSE a.ylim,
                    ![ax].xlabel = a.xlabel,
                    ![ax].ylabel = a.ylabel,
                    ![ploc[s].cbar].ylabel = a.cbar_label]
    /\ ppc' = [ppc EXCEPT ![s] = "done"]
    /\ UNCHANGED <<figs, curFig, nfig, pargs, ploc>>
    /\ UNCHANGED mathVars

(***************************************************************************)
(* Inputs of plot_line_segments.                                           *)
(***************************************************************************)
ValSeqs == UNION {[1..n -> 0..MaxVal] : n \in 0..MaxN}

\* A polyline from left to right on the x-axis, all optional arguments left
\* at their defaults.
PlainArgs(vals, type, ax) ==
    [x |-> [i \in 1..Len(vals) |-> i - 1], y |-> [i \in 1..Len(vals) |-> 0],
     vals |-> vals, vals_type |-> type, colormap |-> "viridis", linewidth |-> 3, ax |-> ax,
     xlim |-> << >>, ylim |-> << >>, xlabel |-> "None", ylabel |-> "None",
     cbar_label |-> "None"]

\* A polyline from right to left that climbs, with limits and labels given.
LabelledArgs(vals, type, ax) ==
    [x |-> [i \in 1..Len(vals) |-> Len(vals) - i], y |-> [i \in 1..Len(vals) |-> i],
     vals |-> vals, vals_type |-> type, colormap |-> "plasma", linewidth |-> 1, ax |-> ax,
     xlim |-> <<-1, Len(vals)>>, ylim |-> <<0, Len(vals) + 1>>, xlabel |-> "x",
     ylabel |-> "y", cbar_label |-> "intensity"]

AxChoices == {0} \cup DOMAIN axs

FullArgs ==
    {PlainArgs(v, t, ax) : v \in ValSeqs, t \in ValsTypes, ax \in AxChoices}
      \cup {LabelledArgs(v, t, ax) : v \in ValSeqs, t \in ValsTypes, ax \in AxChoices}

\* The inputs of the interleaved calls: the example of three points, two
\* points (one segment) and a single point as arrays, and the example of
\* three points as a list.
FewArgs ==
    {PlainArgs(v, "ndarray", ax) : v \in {<<1, 2, 3>>, <<2, 2>>, <<1>>}, ax \in AxChoices}
      \cup {PlainArgs(<<1, 2, 3>>, "list", ax) : ax \in AxChoices}

(***************************************************************************)
(* Initial states and specifications.                                      *)
(***************************************************************************)
MathIdle ==
    /\ called = "none"
    /\ margs = NoArgs
    /\ mloc = NoLocals
    /\ mret = NoRet

\* The plotting library as the caller may have left it: nothing plotted yet;
\* one pyplot figure with one axes (plt.subplots()); or one axes of a figure
\* pyplot does not manage (Figure().add_subplot()).
NothingPlotted == figs = {} /\ curFig = 0 /\ nfig = 0 /\ axs = << >>
PyplotAxes == figs = {1} /\ curFig = 1 /\ nfig = 1 /\ axs = <<NewAxes(1)>>
BareAxes == figs = {} /\ curFig = 0 /\ nfig = 1 /\ axs = <<NewAxes(1)>>

PlotIdle ==
    /\ ppc = [s \in Sites |-> "idle"]
    /\ pargs = [s \in Sites |-> IdleArgs]
    /\ ploc = [s \in Sites |-> IdleLocals]

\* The numeric functions, each called once on every input.
Init == MathIdle /\ PlotIdle /\ NothingPlotted

Next ==
    \/ Call_smeared_gauss
    \/ Call_smeared_gauss_rotated
    \/ Call_gcx_segment
    \/ Call_get_angle

Spec == Init /\ [][Next]_vars

\* One call of plot_line_segments, on every input.
PlotInit == MathIdle /\ PlotIdle /\ (NothingPlotted \/ PyplotAxes \/ BareAxes)

PlotNext ==
    \/ ppc[1] = "idle" /\ \E a \in FullArgs : Begin(1, a)
    \/ Subplots(1)
    \/ Means(1)
    \/ Segments(1)
    \/ AddCollection(1)
    \/ Colorbar(1)
    \/ Decorate(1)

SpecPlot == PlotInit /\ [][PlotNext]_vars

\* Two call sites, one call each, their statements interleaved in any order.
ConcNext ==
    \/ \E s \in Sites : ppc[s] = "idle" /\ \E a \in FewArgs : Begin(s, a)
    \/ \E s \in Sites : Subplots(s)
    \/ \E s \in Sites : Means(s)
    \/ \E s \in Sites : Segments(s)
    \/ \E s \in Sites : AddCollection(s)
    \/ \E s \in Sites : Colorbar(s)
    \/ \E s \in Sites : Decorate(s)

SpecPlotConc == PlotInit /\ [][ConcNext]_vars

(***************************************************************************)
(* Properties of the numeric functions (specification Spec).               *)
(***************************************************************************)
Slope(point1, point2) == Rat(point2[2] - point1[2], point2[1] - point1[1])

\* The direction angle of the line through two distinct points: atan of the
\* slope, pi/2 for a vertical line.
DirectionAngle(point1, point2) ==
    IF point1[1] = point2[1] THEN HalfPi ELSE arctan(Slope(point1, point2))

\* C2: for every pair of points with x1 = x2 (point1 = point2 included)
\* get_angle returns exactly 0, raises nothing and never evaluates the
\* division (y2 - y1)/(x2 - x1).
C2_VerticalIsZero ==
    (called = "get_angle" /\ margs.point1[1] = margs.point2[1])
      => /\ mret.value = ZeroAngle
         /\ mret.divisions = 0
         /\ mret.raised = "none"

C2_Witness ==
    /\ called = "get_angle"
    /\ margs.point1 = <<0, 0>>
    /\ margs.point2 = <<0, 1>>
    /\ mret.value = ZeroAngle
    /\ mret.divisions = 0

\* C3: for every pair of points with x1 # x2 get_angle returns
\* pi/2 - atan((y2 - y1)/(x2 - x1)): exactly pi/2 for every horizontal
\* segment, pi/4 for every segment of slope 1.
C3_GeneralFormula ==
    (called = "get_angle" /\ margs.point1[1] # margs.point2[1])
      => LET m == Slope(margs.point1, margs.point2)
         IN /\ mret.raised = "none"
            /\ mret.value.q = 2 - arctan(m).q
            /\ mret.value.t = RNeg(arctan(m).t)
            /\ (margs.point1[2] = margs.point2[2] => mret.value = Angle(2, RZero))
            /\ (m = R(1) => mret.value = Angle(1, RZero))

C3_Witness ==
    /\ called = "get_angle"
    /\ margs.point1 = <<0, 0>>
    /\ margs.point2 = <<1, 1>>
    /\ mret.value = Angle(1, RZero)

\* C4 as stated: for distinct endpoints on a line of slope 0, 1, -1 or a
\* vertical line, the returned angle differs from the direction angle of the
\* line by pi/2 modulo pi.
C4_Original ==
    (/\ called = "get_angle"
     /\ margs.point1 # margs.point2
     /\ DirectionAngle(margs.point1, margs.point2).t = RZero)
      => /\ mret.value.t = RZero
         /\ (mret.value.q - DirectionAngle(margs.point1, margs.point2).q) % 4 = 2

\* C4 as amended: for distinct endpoints the returned angle and the direction
\* angle of the line add up to pi/2 modulo pi (the returned angle is the
\* direction angle mirrored in the diagonal y = x); the two differ by pi/2
\* modulo pi for horizontal and vertical lines only.
C4_MirrorOfDirection ==
    (called = "get_angle" /\ margs.point1 # margs.point2)
      => LET dir == DirectionAngle(margs.point1, margs.point2)
         IN /\ (mret.value.q + dir.q) % 4 = 2
            /\ mret.value.t = RNeg(dir.t)
            /\ (dir.t = RZero =>
                  ((mret.value.q - dir.q) % 4 = 2 <=> dir.q \in {0, 2}))

C4_Witness ==
    /\ called = "get_angle"
    /\ margs.point1 = <<-1, 1>>
    /\ margs.point2 = <<1, -1>>
    /\ mret.value = Angle(3, RZero)

\* C5: smeared_gauss_rotated with angle theta, evaluated at the point obtained
\* by turning (x, y) by -theta about the origin, equals
\* smeared_gauss(x, y, s, d); with theta = 0 it equals smeared_gauss at the
\* same point.
C5_RotationConsistency ==
    called = "smeared_gauss_rotated"
      => /\ \A p \in Grid :
              RotatePoint(p, NegAngle(margs.theta)) = <<margs.x, margs.y>>
                => mret.value = smeared_gauss(p[1], p[2], margs.s, margs.d)
         /\ (margs.theta = ZeroAngle
               => mret.value = smeared_gauss(margs.x, margs.y, margs.s, margs.d))

C5_Witness ==
    /\ called = "smeared_gauss_rotated"
    /\ margs.theta = Angle(0, Rat(3, 4))
    /\ <<margs.x, margs.y>> = <<Rat(4, 5), Rat(-3, 5)>>
    /\ <<margs.x, margs.y>> = RotatePoint(<<R(1), R(0)>>, NegAngle(margs.theta))
    /\ mret.value = smeared_gauss(R(1), R(0), margs.s, margs.d)
    /\ mret.value # ZeroVal

\* Whether p lies on the line through the origin with direction u.
OnLine(p, u) == RMul(p[1], u[2]) = RMul(p[2], u[1])

\* C6 as stated: the points with y_rot = 0 are the line through the origin in
\* the direction (cos theta, sin theta).
C6_Original ==
    called = "smeared_gauss_rotated"
      => (mloc.y_rot = RZero
            <=> OnLine(<<margs.x, margs.y>>, <<Cos(margs.theta), Sin(margs.theta)>>))

\* C6 as amended: the points with y_rot = 0 are the line through the origin in
\* the direction (cos theta, -sin theta), the direction making the angle
\* -theta with the x-axis, and x_rot is the position along it.
C6_AxisDirection ==
    called = "smeared_gauss_rotated"
      => LET u == <<Cos(margs.theta), RNeg(Sin(margs.theta))>>
         IN /\ mloc.y_rot = RZero <=> OnLine(<<margs.x, margs.y>>, u)
            /\ \A k \in {R(-1), R(1)} :
                 <<margs.x, margs.y>> = <<RMul(k, u[1]), RMul(k, u[2])>>
                   => mloc.x_rot = k /\ mloc.y_rot = RZero

C6_Witness ==
    /\ called = "smeared_gauss_rotated"
    /\ margs.theta = Angle(2, Rat(-3, 4))
    /\ Cos(margs.theta) = Rat(3, 5)
    /\ Sin(margs.theta) = Rat(4, 5)
    /\ <<margs.x, margs.y>> = <<Rat(3, 5), Rat(-4, 5)>>
    /\ mloc.x_rot = R(1)
    /\ mloc.y_rot = RZero

\* C7: gcx_segment at its own centre (x = xo, y = yo) equals
\* A * smeared_gauss(0, 0, s, d), whatever theta and the centre are.
C7_CentreValue ==
    (called = "gcx_segment" /\ margs.x = margs.xo /\ margs.y = margs.yo)
      => mret.value = Times(Const(margs.A), smeared_gauss(RZero, RZero, margs.s, margs.d))

C7_Witness ==
    /\ called = "gcx_segment"
    /\ margs.x = R(1) /\ margs.xo = R(1)
    /\ margs.y = R(1) /\ margs.yo = R(1)
    /\ margs.theta = Angle(2, Rat(3, 4))
    /\ margs.A = R(2)
    /\ mret.value # ZeroVal
    /\ mret.value.erf = <<RDiv(margs.d, RMul(R(2), margs.s)), RNeg(RDiv(margs.d, RMul(R(2), margs.s)))>>

\* C10: for d = 0 and every s > 0, smeared_gauss(x, 0, s, 0) is exactly 0 for
\* every x, x = 0 included.
C10_ZeroWidth ==
    (called = "smeared_gauss" /\ margs.d = RZero /\ margs.y = RZero)
      => mret.value = ZeroVal

C10_Witness ==
    /\ called = "smeared_gauss"
    /\ margs.d = RZero
    /\ margs.y = RZero
    /\ margs.x = RZero
    /\ mret.value = ZeroVal

(***************************************************************************)
(* Properties of one call of plot_line_segments (specification SpecPlot).  *)
(***************************************************************************)
\* The collection the call of site s has added to its axes.
Line(s) == axs[ploc[s].ax].collections[ploc[s].lc]

\* The mean of the values at points i and i + 1.
MeanAt(vals, i) == Rat(vals[i] + vals[i + 1], 2)

MeanSet(vals) == {MeanAt(vals, i) : i \in 1..(Len(vals) - 1)}
LeastMean(vals) == CHOOSE m \in MeanSet(vals) : \A k \in MeanSet(vals) : RLe(m, k)
GreatestMean(vals) == CHOOSE m \in MeanSet(vals) : \A k \in MeanSet(vals) : RLe(k, m)

\* The collection of site s holds n - 1 segments, segment i joining point i to
\* point i + 1 in input order and carrying the mean of their values.
SegmentsBuilt(s) ==
    LET a == pargs[s]
        n == Len(a.vals)
    IN /\ Len(Line(s).segments) = n - 1
       /\ Len(Line(s).array) = n - 1
       /\ \A i \in 1..(n - 1) :
            /\ Line(s).segments[i] = <<<<a.x[i], a.y[i]>>, <<a.x[i + 1], a.y[i + 1]>>>>
            /\ Line(s).array[i] = MeanAt(a.vals, i)

InRange(s) ==
    \A i \in 1..Len(Line(s).array) :
        RLe(Line(s).norm.vmin, Line(s).array[i]) /\ RLe(Line(s).array[i], Line(s).norm.vmax)

\* C1: for every input of n >= 2 points with n values the call completes,
\* having built the n - 1 segments with their mean values, and leaves the
\* normalization range at [minimum, maximum] of the means, every segment's
\* value inside it.
C1_Original ==
    (ppc[1] \in {"done", "error"} /\ Len(pargs[1].vals) >= 2)
      => /\ ppc[1] = "done"
         /\ SegmentsBuilt(1)
         /\ Line(1).norm = [vmin |-> LeastMean(pargs[1].vals),
                            vmax |-> GreatestMean(pargs[1].vals)]
         /\ InRange(1)

\* C1, the failing input reached: three points with their values in a list;
\* line 96 has raised TypeError and nothing was added to the axes.
C1_FailingInput ==
    /\ ppc[1] = "error"
    /\ pargs[1].x = <<0, 1, 2>>
    /\ pargs[1].y = <<0, 0, 0>>
    /\ pargs[1].vals = <<1, 2, 3>>
    /\ pargs[1].vals_type = "list"
    /\ ploc[1].raised = "TypeError"
    /\ ploc[1].lc = 0

\* C1, what the code does when vals is an ndarray of n >= 2 values: it builds
\* the n - 1 segments with their mean values and gives the collection the
\* normalization range [minimum, maximum] of the means; the range is still
\* that when the call returns if minimum < maximum, and has been widened by
\* the colour bar, to [m - |m|/10, m + |m|/10] (to [-1/10, 1/10] for m = 0),
\* if all the means are the same m; each segment's value lies inside it.
C1_ArraySegmentsAndRange ==
    (ppc[1] \in {"L105", "L107", "done"} /\ Len(pargs[1].vals) >= 2)
      => LET lo == LeastMean(pargs[1].vals)
             hi == GreatestMean(pargs[1].vals)
             tenth == RMul(Rat(1, 10), RAbs(lo))
         IN /\ pargs[1].vals_type = "ndarray"
            /\ SegmentsBuilt(1)
            /\ InRange(1)
            /\ (ppc[1] = "L105" \/ lo # hi) => Line(1).norm = [vmin |-> lo, vmax |-> hi]
            /\ (ppc[1] # "L105" /\ lo = hi /\ lo # RZero)
                 => Line(1).norm = [vmin |-> RSub(lo, tenth), vmax |-> RAdd(lo, tenth)]
            /\ (ppc[1] # "L105" /\ lo = hi /\ lo = RZero)
                 => Line(1).norm = [vmin |-> Rat(-1, 10), vmax |-> Rat(1, 10)]

\* C1, the example of the arrays [0,1,2], [0,0,0], [1,2,3] completed.
C1_ArrayExample ==
    /\ ppc[1] = "done"
    /\ pargs[1].x = <<0, 1, 2>>
    /\ pargs[1].y = <<0, 0, 0>>
    /\ pargs[1].vals = <<1, 2, 3>>
    /\ pargs[1].vals_type = "ndarray"
    /\ Line(1).array = <<Rat(3, 2), Rat(5, 2)>>
    /\ Len(Line(1).segments) = 2
    /\ Line(1).norm = [vmin |-> Rat(3, 2), vmax |-> Rat(5, 2)]

\* C8: a call with fewer than 2 points (n = 0 or n = 1) ends in an error: it
\* never gets past lines 96-97 and leaves them with an exception raised,
\* ValueError (the minimum of no means, line 97) when vals is an ndarray,
\* TypeError (line 96) when vals is a list or a tuple; nothing is added to
\* the axes.
C8_TooFewPoints ==
    (ppc[1] # "idle" /\ Len(pargs[1].vals) < 2)
      => /\ ppc[1] \in {"L93", "L96", "error"}
         /\ (ppc[1] = "error" <=> ploc[1].raised # "none")
         /\ (ppc[1] = "error" =>
               ploc[1].raised = IF pargs[1].vals_type = "ndarray"
                                THEN "ValueError" ELSE "TypeError")
         /\ (ppc[1] # "L93" => ploc[1].lc = 0 /\ ploc[1].cbar = 0
                                 /\ axs[ploc[1].ax].collections = << >>)

C8_Witness ==
    /\ ppc[1] = "error"
    /\ Len(pargs[1].vals) = 1
    /\ Len(pargs[1].x) = 1
    /\ pargs[1].vals_type = "ndarray"
    /\ ploc[1].raised = "ValueError"

(***************************************************************************)
(* Frame properties of interleaved calls (specification SpecPlotConc).     *)
(***************************************************************************)
\* The statement executed is one of site s.
StepOf(s) == ppc'[s] # ppc[s]

\* A step of site s leaves alone the arguments of every call in progress, the
\* local variables of the other sites, and every axes that is neither the
\* axes of s nor the colour bar of s.
OthersUntouched(s) ==
    /\ ppc[s] # "idle" => pargs'[s] = pargs[s]
    /\ \A t \in Sites \ {s} : pargs'[t] = pargs[t] /\ ploc'[t] = ploc[t] /\ ppc'[t] = ppc[t]
    /\ \A a \in DOMAIN axs :
         (a # ploc'[s].ax /\ a # ploc'[s].cbar) => axs'[a] = axs[a]

\* The axes a step of site s makes are the axes plt.subplots gave it, or its
\* colour bar, attached to its own axes in the figure of its own axes.
OwnNewAxes(s) ==
    \A a \in DOMAIN axs' \ DOMAIN axs :
        \/ /\ ppc[s] = "L93"
           /\ pargs[s].ax = 0
           /\ a = ploc'[s].ax
           /\ axs'[a] = NewAxes(curFig')
        \/ /\ ppc[s] = "L105"
           /\ a = ploc'[s].cbar
           /\ axs'[a].kind = "colorbar"
           /\ axs'[a].parent = ploc[s].ax
           /\ axs'[a].fig = axs[ploc[s].ax].fig
           /\ axs'[a].mappable = <<ploc[s].ax, ploc[s].lc>>

RegistryKept == figs' = figs /\ curFig' = curFig

\* One new figure is registered and made current; the others stay registered.
OneFigureAdded ==
    /\ nfig' = nfig + 1
    /\ figs' = figs \cup {nfig'}
    /\ nfig' \notin figs
    /\ curFig' = nfig'

\* C9 as stated: a call changes nothing but its own axes: the arguments, the
\* other axes, pyplot's figure registry and pyplot's current figure are left
\* as they were, and the colour bar is attached to the call's own axes.
C9_Original ==
    [][\A s \in Sites : StepOf(s) =>
          OthersUntouched(s) /\ OwnNewAxes(s) /\ RegistryKept]_vars

\* C9 as amended: a call leaves its arguments and every axes but its own (and
\* the colour bar it attaches to its own axes) as they were, in any
\* interleaving; pyplot's figure registry and current figure are changed in
\* two places only: a call with ax None registers one new figure and makes it
\* the current one (plt.subplots), and a call whose colour bar is made while
\* pyplot has no current figure does the same (gcf); no figure is ever
\* removed from the registry.
C9_Frame ==
    [][\A s \in Sites : StepOf(s) =>
          /\ OthersUntouched(s)
          /\ OwnNewAxes(s)
          /\ IF \/ ppc[s] = "L93" /\ pargs[s].ax = 0
                \/ ppc[s] = "L105" /\ curFig = 0
             THEN OneFigureAdded
             ELSE RegistryKept /\ nfig' = nfig]_vars

\* Both calls have returned; site 1 made its own figure, site 2 plotted into
\* an axes of another figure, and each colour bar sits with its own axes while
\* the current figure is not the figure of site 2.
C9_Witness ==
    /\ ppc[1] = "done" /\ ppc[2] = "done"
    /\ pargs[1].ax = 0
    /\ pargs[2].ax # 0
    /\ ploc[1].ax # ploc[2].ax
    /\ axs[ploc[1].cbar].parent = ploc[1].ax
    /\ axs[ploc[2].cbar].parent = ploc[2].ax
    /\ axs[ploc[2].cbar].fig = axs[ploc[2].ax].fig
    /\ curFig # axs[ploc[2].ax].fig
    /\ ploc[1].cbar > ploc[2].cbar

====
